---- MODULE Spec2Model ----
(***************************************************************************)
(* Model of the multimodal context assembler of Chat3D                      *)
(* (src/models/chat3d.py): the object token interleaver                     *)
(* (get_object_list_embed), the sequence packer (forward_stage2 with        *)
(* pad_and_trim) and the generation driver (evaluate).                      *)
(*                                                                         *)
(* Tensors are sequences of rows.  An embedding row is a record that names  *)
(* where the row comes from (kind, idx) and whether it is attached to the   *)
(* gradient graph (grad).  Token ids are integers; texts that reach the     *)
(* string post-processing of evaluate are sequences of characters.          *)
(***************************************************************************)
EXTENDS Integers, Sequences, FiniteSets, TLC

VARIABLES
    add_img_token,      \* config.model.add_img_token
    add_scene_token,    \* config.model.add_scene_token
    train_emb,          \* config.model.train_emb
    train_img_proj,     \* config.model.train_img_proj
    stage,              \* config.model.stage
    requires_grad,      \* requires_grad of the parameters of each sub-module
    end_sym,            \* config.model.end_sym
    p0_len,             \* number of rows of self.p_0_embed
    scene_mask,         \* scene_mask[i][k+1] = 1 iff slot k of scene i is valid
    questions,          \* questions / custom_prompt: one token sequence each
    answers,            \* answers: one token sequence each
    kwargs,             \* the keyword names Chat3D.forward was called with
    call,               \* the entry point that is running
    pc,                 \* position inside the running entry point
    i,                  \* loop index of forward_stage2 / evaluate (0-based)
    mins,               \* get_min_max_coord, one entry per scene (None if not called)
    maxs,
    object_list_embed,  \* value returned by the last get_object_list_embed
    valid_ids,          \* valid_ids after random.shuffle, one per example
    input_embed_list,   \* forward_stage2 locals
    attn_list,
    target_list,
    max_seq_len,
    input_embeds,       \* batch tensors handed to self.llama_model(...)
    attention_mask,
    targets,
    gen_valid_ids,      \* evaluate: valid_ids after random.shuffle, one per example
    gen_inputs,         \* wrapped_embed handed to generate, one per example
    output_texts,       \* evaluate: texts appended so far
    gen_failed,         \* evaluate: generate raised for some example
    answer_text,        \* an answer as text, before answers[i] + self.end_sym
    decoded,            \* text produced by llama_tokenizer.decode
    output_text         \* text after the post-processing of evaluate

config == <<add_img_token, add_scene_token, train_emb, train_img_proj, stage,
            requires_grad, end_sym, p0_len>>
batch  == <<scene_mask, questions, answers, kwargs>>
packer == <<input_embed_list, attn_list, target_list, max_seq_len,
            input_embeds, attention_mask, targets>>
driver == <<gen_valid_ids, gen_inputs, output_texts, gen_failed>>
texts  == <<answer_text, decoded, output_text>>
vars   == <<config, batch, call, pc, i, mins, maxs, object_list_embed, valid_ids,
            packer, driver, texts>>

(***************************************************************************)
(* Program constants                                                        *)
(***************************************************************************)
NumObjIds == 200        \* for i in range(200): objid_tokens.append(...)
MaxSeqCap == 768        \* max_seq_len = min(768, max_seq_len)
IgnoreIndex == -100     \* fill_(-100), masked_fill(..., -100), padding_value=-100
OriVocabSize == 4       \* self.ori_vocab_size = len(self.llama_tokenizer)

(***************************************************************************)
(* Bounds of the model                                                      *)
(***************************************************************************)
NSlots == 3             \* object slots per scene (N_max)
MaxBatch == 2           \* scenes per batch
MaxAnsLen == 1          \* tokens of an answer text
ShortPrefix == 2        \* rows of a short system prefix p_0_embed
LongPrefix == 762       \* rows of a long system prefix p_0_embed
MaxTextLen == 5         \* characters of a decoded text

Min(a, b) == IF a < b THEN a ELSE b
Max(a, b) == IF a > b THEN a ELSE b

Masks == [1..NSlots -> {0, 1}]

\* scenes as batches hold them: the valid objects first, then the padding slots
PaddedMasks == {[k \in 1..NSlots |-> IF k <= n THEN 1 ELSE 0] : n \in 0..NSlots}

(***************************************************************************)
(* Embedding rows                                                           *)
(***************************************************************************)
Row(k, x, g) == [kind |-> k, idx |-> x, grad |-> g]
ZeroRow == Row("zero", 0, FALSE)

\* a pool that is never detached
ObjidEmbeds_Attached(trainEmb) == [n \in 1..NumObjIds |-> Row("id", n - 1, TRUE)]

\* embed_tokens.weight[objid_start_idx:objid_end_idx], detached unless train_emb
ObjidEmbeds(trainEmb) == [n \in 1..NumObjIds |-> Row("id", n - 1, trainEmb)]

\* proj_object_embed[i], proj_object_img_embed[i], proj_scene_embed[i]
EmbedObj   == [n \in 1..NSlots |-> Row("obj", n - 1, TRUE)]
EmbedImg   == [n \in 1..NSlots |-> Row("img", n - 1, TRUE)]
EmbedScene == [n \in 1..NSlots |-> Row("scene", n - 1, TRUE)]

\* tensor[list of 0-based indices]
Gather(tensor, ids) == [j \in 1..Len(ids) |-> tensor[ids[j] + 1]]

\* torch.where(scene_mask == 1)[0].tolist(): ascending 0-based slot indices
RECURSIVE WhereOne(_, _)
WhereOne(mask, n) ==
    IF n > Len(mask) THEN <<>>
    ELSE (IF mask[n] = 1 THEN <<n - 1>> ELSE <<>>) \o WhereOne(mask, n + 1)

ValidIds(mask) == WhereOne(mask, 1)

Range(s) == {s[j] : j \in 1..Len(s)}

\* the outcomes of random.shuffle(valid_ids)
Shuffles(ids) ==
    {p \in [1..Len(ids) -> Range(ids)] : Range(p) = Range(ids)}

\* torch.zeros((n, dim))
Zeros(n) == [r \in 1..n |-> ZeroRow]

\* tensor[off::w, :] = src
StrideAssign(tensor, off, w, src) ==
    [r \in 1..Len(tensor) |->
        IF (r - 1) % w = off THEN src[((r - 1) \div w) + 1] ELSE tensor[r]]

(***************************************************************************)
(* Object Token Interleaver: Chat3D.get_object_list_embed                   *)
(***************************************************************************)
None == <<>>            \* an optional tensor that was not passed

\* embed_img is None and embed_scene is None: [id, object]
LayoutObj(selected_objid_embeds, embed_obj, ids) ==
    LET z  == Zeros(Len(selected_objid_embeds) * 2)
        a  == StrideAssign(z, 0, 2, selected_objid_embeds)
    IN  StrideAssign(a, 1, 2, Gather(embed_obj, ids))

\* embed_img is None and embed_scene is not None: [id, object, scene]
LayoutObjScene(selected_objid_embeds, embed_obj, embed_scene, ids) ==
    LET z  == Zeros(Len(selected_objid_embeds) * 3)
        a  == StrideAssign(z, 0, 3, selected_objid_embeds)
        b  == StrideAssign(a, 1, 3, Gather(embed_obj, ids))
    IN  StrideAssign(b, 2, 3, Gather(embed_scene, ids))

LayoutObjImg_NoImageColumn(selected_objid_embeds, embed_obj, embed_img, ids) ==
    LayoutObj(selected_objid_embeds, embed_obj, ids)

\* embed_img is not None and embed_scene is None: [id, object, image]
LayoutObjImg(selected_objid_embeds, embed_obj, embed_img, ids) ==
    LET z  == Zeros(Len(selected_objid_embeds) * 3)
        a  == StrideAssign(z, 0, 3, selected_objid_embeds)
        b  == StrideAssign(a, 1, 3, Gather(embed_obj, ids))
    IN  StrideAssign(b, 2, 3, Gather(embed_img, ids))

LayoutObjImgScene_Swapped(selected_objid_embeds, embed_obj, embed_img, embed_scene, ids) ==
    LET z  == Zeros(Len(selected_objid_embeds) * 4)
        a  == StrideAssign(z, 0, 4, selected_objid_embeds)
        b  == StrideAssign(a, 1, 4, Gather(embed_obj, ids))
        c  == StrideAssign(b, 2, 4, Gather(embed_scene, ids))
    IN  StrideAssign(c, 3, 4, Gather(embed_img, ids))

\* embed_img is not None and embed_scene is not None: [id, object, image, scene]
LayoutObjImgScene(selected_objid_embeds, embed_obj, embed_img, embed_scene, ids) ==
    LET z  == Zeros(Len(selected_objid_embeds) * 4)
        a  == StrideAssign(z, 0, 4, selected_objid_embeds)
        b  == StrideAssign(a, 1, 4, Gather(embed_obj, ids))
        c  == StrideAssign(b, 2, 4, Gather(embed_img, ids))
    IN  StrideAssign(c, 3, 4, Gather(embed_scene, ids))

\* identifiers handed out in pool order, whatever the slots are
SelectObjidEmbeds_InOrder(objid_embeds, ids) == SubSeq(objid_embeds, 1, Len(ids))

\* selected_objid_embeds = objid_embeds[valid_ids]: pool row k for slot k
SelectObjidEmbeds(objid_embeds, ids) == Gather(objid_embeds, ids)

\* The block of the "len(valid_ids) == 1" branch: a random identifier row of
\* the (attached) pool, then embed_obj[0].
SingleObjectBlock(embed_obj, r) == <<ObjidEmbeds(TRUE)[r + 1], embed_obj[1]>>

\* get_object_list_embed, given the outcome `shuffled` of random.shuffle and
\* the outcome r of random.randint(0, 199).  The block of the single-object
\* branch is bound to object_list_embed but the branch does not return: the
\* function goes on to the shuffle and one of the four layout branches
\* rebinds object_list_embed.
GetObjectListEmbed(embed_obj, embed_img, embed_scene, shuffled, r, trainEmb) ==
    LET b0 == IF Len(shuffled) = 1 THEN SingleObjectBlock(embed_obj, r) ELSE <<>>
        objid_embeds == ObjidEmbeds(trainEmb)
        selected_objid_embeds == SelectObjidEmbeds(objid_embeds, shuffled)
        b1 == IF embed_img = None /\ embed_scene = None
              THEN LayoutObj(selected_objid_embeds, embed_obj, shuffled)
              ELSE b0
        b2 == IF embed_img = None /\ embed_scene # None
              THEN LayoutObjScene(selected_objid_embeds, embed_obj, embed_scene, shuffled)
              ELSE b1
        b3 == IF embed_img # None /\ embed_scene = None
              THEN LayoutObjImg(selected_objid_embeds, embed_obj, embed_img, shuffled)
              ELSE b2
        b4 == IF embed_img # None /\ embed_scene # None
              THEN LayoutObjImgScene(selected_objid_embeds, embed_obj, embed_img,
                                     embed_scene, shuffled)
              ELSE b3
    IN  b4

\* outcomes of random.randint(0, 199), drawn only on the single-object branch:
\* the two ends of the range
RandInts(ids) == IF Len(ids) = 1 THEN {0, NumObjIds - 1} ELSE {0}

\* the optional arguments as forward_stage2 and evaluate pass them
ImgArg   == IF add_img_token THEN EmbedImg ELSE None
SceneArg == IF add_scene_token THEN EmbedScene ELSE None

(***************************************************************************)
(* Tokenizer and embedding lookup (external collaborators, at the interface *)
(* the packer uses)                                                         *)
(***************************************************************************)
PadTokenId == 0         \* self.llama_tokenizer.pad_token_id
RoleTok == 1            \* token of f"{self.role[1]}: "
EndSymTok == 2          \* token of self.end_sym
WordTok == 3            \* a word of the original vocabulary
ObjTok == OriVocabSize  \* "<OBJ000>", the first added token

\* llama_tokenizer(f" {question} {self.role[1]}: ", add_special_tokens=False)
PromptTokens(question) == question \o <<RoleTok>>

\* llama_tokenizer(answers[i] + self.end_sym, add_special_tokens=False)
AnswerTokens(answer) == answer \o <<EndSymTok>>

\* the flag applied to the whole text instead of per token
GetTextEmb_FlagOnly(tokens, trainEmb) ==
    [k \in 1..Len(tokens) |-> Row("tok", tokens[k], trainEmb)]

\* get_text_emb: the rows of embed_tokens(input_ids); with train_emb only the
\* rows of added tokens (id >= ori_vocab_size) stay attached
GetTextEmb(tokens, trainEmb) ==
    [k \in 1..Len(tokens) |->
        Row("tok", tokens[k], trainEmb /\ tokens[k] >= OriVocabSize)]

\* prepare_fixed_embed: p_0_embed and p_1_embed, both detached
P0Embed(n) == [k \in 1..n |-> Row("p0", k - 1, FALSE)]
P1Embed == <<Row("p1", 0, FALSE)>>

(***************************************************************************)
(* Scene Coordinate Encoder: Chat3D.get_min_max_coord                       *)
(***************************************************************************)
PosInf == 1000000       \* float('inf')
NegInf == -1000000      \* float('-inf')

\* one coordinate per slot stands for scene_locs[:, :, :3]
SceneLocs == [n \in 1..NSlots |-> n]

RECURSIVE FoldMin(_, _)
FoldMin(s, n) == IF n = 0 THEN PosInf ELSE Min(s[n], FoldMin(s, n - 1))

RECURSIVE FoldMax(_, _)
FoldMax(s, n) == IF n = 0 THEN NegInf ELSE Max(s[n], FoldMax(s, n - 1))

\* returns <<mins, maxs>> of one scene
GetMinMaxCoord(xyz, mask) ==
    LET masked_xyz_min == [n \in 1..Len(xyz) |-> IF mask[n] > 0 THEN xyz[n] ELSE PosInf]
        masked_xyz_max == [n \in 1..Len(xyz) |-> IF mask[n] > 0 THEN xyz[n] ELSE NegInf]
    IN  <<FoldMin(masked_xyz_min, Len(xyz)), FoldMax(masked_xyz_max, Len(xyz))>>

(***************************************************************************)
(* Sequence Packer: Chat3D.forward_stage2                                   *)
(***************************************************************************)
Ones(n) == [k \in 1..n |-> 1]
Fill(n, v) == [k \in 1..n |-> v]

\* wrapped_embed = torch.cat([p_0_embed, object_list_embed, p_1_embed, prompt_embed])
WrappedEmbed(p_0_embed, block, p_1_embed, prompt_embed) ==
    p_0_embed \o block \o p_1_embed \o prompt_embed

AnswerTarget_NoPadMask(input_ids) == input_ids

\* to_regress_token.input_ids.masked_fill(input_ids == pad_token_id, -100)
AnswerTarget(input_ids) ==
    [k \in 1..Len(input_ids) |->
        IF input_ids[k] = PadTokenId THEN IgnoreIndex ELSE input_ids[k]]

\* target = torch.cat([empty_target, answer_target])
Target(wrapped_embed, input_ids) ==
    Fill(Len(wrapped_embed), IgnoreIndex) \o AnswerTarget(input_ids)

\* attn = torch.cat([wrapped_attn, to_regress_token.attention_mask[0]])
Attn(wrapped_embed, input_ids) == Ones(Len(wrapped_embed)) \o Ones(Len(input_ids))

RECURSIVE MaxLen(_, _)
MaxLen(tensor_list, n) ==
    IF n = 0 THEN 0 ELSE Max(Len(tensor_list[n]), MaxLen(tensor_list, n - 1))

\* a stacking that reverses the order of the examples
PadSequence_Reversed(tensor_list, padding_value) ==
    LET m == MaxLen(tensor_list, Len(tensor_list))
        n == Len(tensor_list)
    IN  [b \in 1..n |->
            tensor_list[n + 1 - b] \o Fill(m - Len(tensor_list[n + 1 - b]),
                                           padding_value)]

\* torch.nn.utils.rnn.pad_sequence(tensor_list, batch_first=True, padding_value)
PadSequence(tensor_list, padding_value) ==
    LET m == MaxLen(tensor_list, Len(tensor_list))
    IN  [b \in 1..Len(tensor_list) |->
            tensor_list[b] \o Fill(m - Len(tensor_list[b]), padding_value)]

PadAndTrim_NoTrim(tensor_list, max_len, padding_value) ==
    PadSequence(tensor_list, padding_value)

PadAndTrim_LeftTrim(tensor_list, max_len, padding_value) ==
    LET padded == PadSequence(tensor_list, padding_value)
    IN  IF Len(padded[1]) > max_len
        THEN [b \in 1..Len(padded) |->
                SubSeq(padded[b], Len(padded[b]) - max_len + 1, Len(padded[b]))]
        ELSE padded

\* pad_and_trim
PadAndTrim(tensor_list, max_len, padding_value) ==
    LET padded == PadSequence(tensor_list, padding_value)
    IN  IF Len(padded[1]) > max_len
        THEN [b \in 1..Len(padded) |-> SubSeq(padded[b], 1, max_len)]
        ELSE padded

(***************************************************************************)
(* Generation Driver: the text post-processing of Chat3D.evaluate           *)
(***************************************************************************)
EndSym == <<"<", ">">>                       \* self.end_sym
Whitespace == {" ", "\n"}                    \* what str.strip() removes
Chars == {" ", ".", "a", "\n", "<", ">"}

\* text.split(sep)[0]: the part before the first occurrence of sep
RECURSIVE SplitFirst(_, _)
SplitFirst(text, sep) ==
    IF Len(text) < Len(sep) THEN text
    ELSE IF SubSeq(text, 1, Len(sep)) = sep THEN <<>>
    ELSE <<Head(text)>> \o SplitFirst(Tail(text), sep)

\* text.replace(old, new): one left-to-right pass over non-overlapping matches
RECURSIVE Replace(_, _, _)
Replace(text, old, new) ==
    IF Len(text) < Len(old) THEN text
    ELSE IF SubSeq(text, 1, Len(old)) = old
         THEN new \o Replace(SubSeq(text, Len(old) + 1, Len(text)), old, new)
    ELSE <<Head(text)>> \o Replace(Tail(text), old, new)

RECURSIVE LStrip(_)
LStrip(text) ==
    IF text # <<>> /\ Head(text) \in Whitespace THEN LStrip(Tail(text)) ELSE text

RECURSIVE RStrip(_)
RStrip(text) ==
    IF text # <<>> /\ text[Len(text)] \in Whitespace
    THEN RStrip(SubSeq(text, 1, Len(text) - 1))
    ELSE text

Strip_LeftOnly(text) == LStrip(text)

Strip(text) == RStrip(LStrip(text))

\* output_text.replace('  ', ' ').replace(' .', '.').strip()
CleanText(text) ==
    Strip(Replace(Replace(text, <<" ", " ">>, <<" ">>), <<" ", ".">>, <<".">>))

\* The tokenizer at character granularity: one token id per character, the
\* ids of the characters following the ids 0..OriVocabSize of the packer's
\* tokens.
CharList == <<" ", ".", "a", "\n", "<", ">">>
CharId(c) == OriVocabSize + CHOOSE k \in 1..Len(CharList) : CharList[k] = c

\* llama_tokenizer(answer, add_special_tokens=False).input_ids
Encode(text) == [k \in 1..Len(text) |-> CharId(text[k])]

\* llama_tokenizer.decode(output_token)
Decode(tokens) == [k \in 1..Len(tokens) |-> CharList[tokens[k] - OriVocabSize]]

\* output_text.split(self.end_sym)[0]
\*            .replace('  ', ' ').replace(' .', '.').strip()
PostProcess(text) ==
    Strip(Replace(Replace(SplitFirst(text, EndSym), <<" ", " ">>, <<" ">>),
                  <<" ", ".">>, <<".">>))

(***************************************************************************)
(* Chat3D.__init__: which parameters are trainable                          *)
(***************************************************************************)
\* the sub-modules as nn.Module creates them: every parameter trainable
CreatedModules ==
    [pos_proj |-> TRUE, object_proj |-> TRUE, object_img_proj |-> TRUE,
     relation_module |-> TRUE, scene_init_proj |-> TRUE, scene_proj |-> TRUE]

\* if not self.train_img_proj: freeze object_img_proj
FreezeImgProj(rg, trainImgProj) ==
    IF ~trainImgProj THEN [rg EXCEPT !.object_img_proj = FALSE] ELSE rg

\* if not self.add_scene_token: freeze relation_module, scene_init_proj and
\* scene_proj
FreezeSceneBranch(rg, addSceneToken) ==
    IF ~addSceneToken
    THEN [rg EXCEPT !.relation_module = FALSE, !.scene_init_proj = FALSE,
                    !.scene_proj = FALSE]
    ELSE rg

\* if self.stage == 1: freeze relation_module and pos_proj
FreezeStage1(rg, stg) ==
    IF stg = 1
    THEN [rg EXCEPT !.relation_module = FALSE, !.pos_proj = FALSE]
    ELSE rg

\* requires_grad once __init__ has returned
ConstructedGrad(stg, addSceneToken, trainImgProj) ==
    FreezeStage1(FreezeSceneBranch(FreezeImgProj(CreatedModules, trainImgProj),
                                   addSceneToken), stg)

(***************************************************************************)
(* Inputs                                                                   *)
(***************************************************************************)
QuestionTexts == {<<WordTok>>, <<WordTok, ObjTok>>}
AnswerAlphabet == {PadTokenId, WordTok}
AnswerTexts == UNION {[1..n -> AnswerAlphabet] : n \in 0..MaxAnsLen}
P0Lens == {ShortPrefix, LongPrefix}
Texts == UNION {[1..n -> Chars] : n \in 0..MaxTextLen}
\* decoded outputs of generate used when whole batches are evaluated
GenTexts == {<<"a">>, <<"a", " ", ".", "<", ">", "a">>}

InitState(c) ==
    /\ call = c
    /\ pc = "start"
    /\ i = 0
    /\ mins = <<>>
    /\ maxs = <<>>
    /\ object_list_embed = <<>>
    /\ valid_ids = <<>>
    /\ input_embed_list = <<>>
    /\ attn_list = <<>>
    /\ target_list = <<>>
    /\ max_seq_len = 0
    /\ input_embeds = <<>>
    /\ attention_mask = <<>>
    /\ targets = <<>>
    /\ gen_valid_ids = <<>>
    /\ gen_inputs = <<>>
    /\ output_texts = <<>>
    /\ gen_failed = FALSE
    /\ answer_text = <<>>
    /\ decoded = <<>>
    /\ output_text = <<>>

\* a model constructed for instruction tuning (stage 2)
InitConfig(p0lens, trainEmbs) ==
    /\ add_img_token \in BOOLEAN
    /\ add_scene_token \in BOOLEAN
    /\ train_emb \in trainEmbs
    /\ train_img_proj = FALSE
    /\ stage = 2
    /\ requires_grad = ConstructedGrad(stage, add_scene_token, train_img_proj)
    /\ end_sym = EndSym
    /\ p0_len \in p0lens

\* a batch whose questions and answers match its scenes one to one
InitBatch(sizes, masks, qs, as) ==
    \E n \in sizes :
        /\ scene_mask \in [1..n -> masks]
        /\ questions \in [1..n -> qs]
        /\ answers \in [1..n -> as]
        /\ kwargs = {}

(***************************************************************************)
(* get_object_list_embed called on one scene                                *)
(***************************************************************************)
CallGetObjectListEmbed ==
    /\ call = "get_object_list_embed"
    /\ pc = "start"
    /\ \E shuffled \in Shuffles(ValidIds(scene_mask[1])) :
       \E r \in RandInts(shuffled) :
          /\ object_list_embed' =
                GetObjectListEmbed(EmbedObj, ImgArg, SceneArg, shuffled, r, train_emb)
          /\ valid_ids' = <<shuffled>>
    /\ pc' = "done"
    /\ UNCHANGED <<config, batch, call, i, mins, maxs, packer, driver, texts>>

InitInterleave ==
    /\ InitState("get_object_list_embed")
    /\ InitConfig({ShortPrefix}, BOOLEAN)
    /\ InitBatch({1}, Masks, {<<>>}, {<<>>})

NextInterleave == CallGetObjectListEmbed

SpecInterleave == InitInterleave /\ [][NextInterleave]_vars

(***************************************************************************)
(* Claims about get_object_list_embed (SpecInterleave)                      *)
(***************************************************************************)
InterleaveDone == call = "get_object_list_embed" /\ pc = "done"

\* the layout width and column order the documentation gives for the flags
LayoutWidth ==
    IF add_img_token /\ add_scene_token THEN 4
    ELSE IF add_img_token \/ add_scene_token THEN 3
    ELSE 2

LayoutColumns ==
    IF add_img_token /\ add_scene_token THEN <<"id", "obj", "img", "scene">>
    ELSE IF add_img_token THEN <<"id", "obj", "img">>
    ELSE IF add_scene_token THEN <<"id", "obj", "scene">>
    ELSE <<"id", "obj">>

ValidCount(n) == Len(ValidIds(scene_mask[n]))

\* C1: a scene with exactly one valid object gets, in each of the four
\* layouts, a block of exactly 2 rows: an identifier row followed by the
\* object row, and no image or scene row.
C1_SingleValidTwoRows ==
    (InterleaveDone /\ ValidCount(1) = 1) =>
        /\ Len(object_list_embed) = 2
        /\ object_list_embed[1].kind = "id"
        /\ object_list_embed[2].kind = "obj"
        /\ \A r \in 1..Len(object_list_embed) :
              object_list_embed[r].kind \notin {"img", "scene"}

\* C2: with at least two valid objects the block has exactly
\* validCount * layoutWidth rows (width 2, 3 or 4 by the modalities passed),
\* whatever the number of invalid slots.
C2_BlockLength ==
    (InterleaveDone /\ ValidCount(1) >= 2) =>
        Len(object_list_embed) = ValidCount(1) * LayoutWidth

C2_Witness ==
    /\ InterleaveDone
    /\ ValidCount(1) >= 2
    /\ ValidCount(1) < NSlots
    /\ add_img_token
    /\ ~add_scene_token
    /\ Len(object_list_embed) = 2 * 3

\* C3: the j-th object of the shuffled valid list occupies rows
\* j*w .. j*w+w-1 in the column order of the layout; the rows of one group
\* belong to the same object, every valid object has exactly one group and
\* no row comes from an invalid slot.
C3_StrideLayout ==
    InterleaveDone =>
        LET ids == valid_ids[1]
            w   == LayoutWidth
            blk == object_list_embed
        IN  /\ Len(blk) = Len(ids) * w
            /\ \A j \in 1..Len(ids) : \A c \in 1..w :
                  /\ blk[(j - 1) * w + c].kind = LayoutColumns[c]
                  /\ blk[(j - 1) * w + c].idx = ids[j]
            /\ \A k \in 0..(NSlots - 1) :
                  IF scene_mask[1][k + 1] = 1
                  THEN Cardinality({j \in 1..Len(ids) : ids[j] = k}) = 1
                  ELSE \A r \in 1..Len(blk) : blk[r].idx # k

C3_Witness ==
    /\ InterleaveDone
    /\ ~add_img_token /\ ~add_scene_token
    /\ scene_mask[1] = [n \in 1..NSlots |-> IF n <= 3 THEN 1 ELSE 0]
    /\ valid_ids[1] = <<2, 0, 1>>
    /\ Len(object_list_embed) = 6
    /\ [r \in 1..6 |-> object_list_embed[r].kind]
          = <<"id", "obj", "id", "obj", "id", "obj">>

(***************************************************************************)
(* Chat3D.forward_stage2                                                    *)
(***************************************************************************)
\* lines 414-435: projections, the scene branch (get_min_max_coord, only when
\* add_scene_token) and the empty lists
Stage2Begin ==
    /\ call = "forward_stage2"
    /\ pc = "start"
    /\ IF add_scene_token
       THEN /\ mins' = [b \in 1..Len(scene_mask) |->
                           GetMinMaxCoord(SceneLocs, scene_mask[b])[1]]
            /\ maxs' = [b \in 1..Len(scene_mask) |->
                           GetMinMaxCoord(SceneLocs, scene_mask[b])[2]]
       ELSE UNCHANGED <<mins, maxs>>
    /\ input_embed_list' = <<>>
    /\ attn_list' = <<>>
    /\ target_list' = <<>>
    /\ max_seq_len' = 0
    /\ pc' = "loop"
    /\ UNCHANGED <<config, batch, call, i, object_list_embed, valid_ids,
                   input_embeds, attention_mask, targets, driver, texts>>

\* one iteration of "for i, question in enumerate(questions)"
Stage2Iter ==
    /\ call = "forward_stage2"
    /\ pc = "loop"
    /\ i < Len(questions)
    /\ i < Len(scene_mask)          \* proj_object_embed[i], scene_mask[i]
    /\ i < Len(answers)             \* answers[i]
    /\ \E shuffled \in Shuffles(ValidIds(scene_mask[i + 1])) :
       \E r \in RandInts(shuffled) :
          LET prompt_embed == GetTextEmb(PromptTokens(questions[i + 1]), train_emb)
              block == GetObjectListEmbed(EmbedObj, ImgArg, SceneArg,
                                          shuffled, r, train_emb)
              wrapped_embed == WrappedEmbed(P0Embed(p0_len), block, P1Embed,
                                            prompt_embed)
              input_ids == AnswerTokens(answers[i + 1])
              to_regress_embed == GetTextEmb(input_ids, train_emb)
              target == Target(wrapped_embed, input_ids)
          IN  /\ object_list_embed' = block
              /\ valid_ids' = Append(valid_ids, shuffled)
              /\ input_embed_list' =
                    Append(input_embed_list, wrapped_embed \o to_regress_embed)
              /\ attn_list' = Append(attn_list, Attn(wrapped_embed, input_ids))
              /\ target_list' = Append(target_list, target)
              /\ max_seq_len' = Max(max_seq_len, Len(target))
    /\ i' = i + 1
    /\ UNCHANGED <<config, batch, call, pc, mins, maxs,
                   input_embeds, attention_mask, targets, driver, texts>>

\* lines 470-509: the cap, pad_and_trim of the three lists, and the call of
\* self.llama_model on the batch tensors
Stage2Finish ==
    /\ call = "forward_stage2"
    /\ pc = "loop"
    /\ i = Len(questions)
    /\ Len(questions) > 0
    /\ LET cap == Min(MaxSeqCap, max_seq_len)
       IN  /\ max_seq_len' = cap
           /\ input_embeds' = PadAndTrim(input_embed_list, cap, ZeroRow)
           /\ attention_mask' = PadAndTrim(attn_list, cap, 0)
           /\ targets' = PadAndTrim(target_list, cap, IgnoreIndex)
    /\ pc' = "done"
    /\ UNCHANGED <<config, batch, call, i, mins, maxs, object_list_embed,
                   valid_ids, input_embed_list, attn_list, target_list,
                   driver, texts>>

NextStage2 == Stage2Begin \/ Stage2Iter \/ Stage2Finish

InitStage2 ==
    /\ InitState("forward_stage2")
    /\ InitConfig(P0Lens, {TRUE})
    /\ InitBatch(1..MaxBatch, PaddedMasks, {<<WordTok>>}, AnswerTexts)

SpecStage2 == InitStage2 /\ [][NextStage2]_vars

(***************************************************************************)
(* Chat3D.evaluate                                                          *)
(***************************************************************************)
EvalWrappedEmbed_BlockAfterSuffix(p_0_embed, block, p_1_embed, prompt_embed) ==
    p_0_embed \o p_1_embed \o block \o prompt_embed

\* wrapped_embed = torch.cat([p_0_embed, object_list_embed, p_1_embed,
\*                            prompt_embed], dim=1)
EvalWrappedEmbed(p_0_embed, block, p_1_embed, prompt_embed) ==
    p_0_embed \o block \o p_1_embed \o prompt_embed

\* evaluate(**kwargs) is entered with the batch (custom_prompt holds the
\* question texts); the tensors of an earlier forward_stage2 are left alone
EvaluateEnter ==
    /\ call = "forward_stage2"
    /\ pc = "done"
    /\ call' = "evaluate"
    /\ pc' = "start"
    /\ i' = 0
    /\ UNCHANGED <<config, batch, mins, maxs, object_list_embed, valid_ids,
                   packer, driver, texts>>

\* lines 512-530
EvalBegin ==
    /\ call = "evaluate"
    /\ pc = "start"
    /\ IF add_scene_token
       THEN /\ mins' = [b \in 1..Len(scene_mask) |->
                           GetMinMaxCoord(SceneLocs, scene_mask[b])[1]]
            /\ maxs' = [b \in 1..Len(scene_mask) |->
                           GetMinMaxCoord(SceneLocs, scene_mask[b])[2]]
       ELSE UNCHANGED <<mins, maxs>>
    /\ output_texts' = <<>>
    /\ pc' = "loop"
    /\ UNCHANGED <<config, batch, call, i, object_list_embed, valid_ids, packer,
                   gen_valid_ids, gen_inputs, gen_failed, texts>>

\* one iteration of "for i in range(batch_size)" in which generate returns
EvalIter ==
    /\ call = "evaluate"
    /\ pc = "loop"
    /\ i < Len(scene_mask)
    /\ i < Len(questions)           \* custom_prompt[i]
    /\ \E shuffled \in Shuffles(ValidIds(scene_mask[i + 1])) :
       \E r \in RandInts(shuffled) :
       \E text \in GenTexts :
          LET prompt_embed == GetTextEmb(PromptTokens(questions[i + 1]), train_emb)
              block == GetObjectListEmbed(EmbedObj, ImgArg, SceneArg,
                                          shuffled, r, train_emb)
              wrapped_embed == EvalWrappedEmbed(P0Embed(p0_len), block, P1Embed,
                                                prompt_embed)
          IN  /\ object_list_embed' = block
              /\ gen_valid_ids' = Append(gen_valid_ids, shuffled)
              /\ gen_inputs' = Append(gen_inputs, wrapped_embed)
              /\ decoded' = text
              /\ output_text' = PostProcess(text)
              /\ output_texts' = Append(output_texts, PostProcess(text))
    /\ i' = i + 1
    /\ UNCHANGED <<config, batch, call, pc, mins, maxs, valid_ids, packer,
                   gen_failed, answer_text>>

\* the same iteration when self.llama_model.generate raises: nothing catches
\* the exception, evaluate ends without returning output_texts
EvalGenerateRaises ==
    /\ call = "evaluate"
    /\ pc = "loop"
    /\ i < Len(scene_mask)
    /\ i < Len(questions)
    /\ \E shuffled \in Shuffles(ValidIds(scene_mask[i + 1])) :
       \E r \in RandInts(shuffled) :
          LET prompt_embed == GetTextEmb(PromptTokens(questions[i + 1]), train_emb)
              block == GetObjectListEmbed(EmbedObj, ImgArg, SceneArg,
                                          shuffled, r, train_emb)
              wrapped_embed == EvalWrappedEmbed(P0Embed(p0_len), block, P1Embed,
                                                prompt_embed)
          IN  /\ object_list_embed' = block
              /\ gen_valid_ids' = Append(gen_valid_ids, shuffled)
              /\ gen_inputs' = Append(gen_inputs, wrapped_embed)
    /\ gen_failed' = TRUE
    /\ pc' = "raised"
    /\ UNCHANGED <<config, batch, call, i, mins, maxs, valid_ids, packer,
                   output_texts, texts>>

\* return output_texts
EvalReturn ==
    /\ call = "evaluate"
    /\ pc = "loop"
    /\ i = Len(scene_mask)
    /\ pc' = "done"
    /\ UNCHANGED <<config, batch, call, i, mins, maxs, object_list_embed,
                   valid_ids, packer, driver, texts>>

NextEvaluate == EvalBegin \/ EvalIter \/ EvalGenerateRaises \/ EvalReturn

\* a training step on a batch, then generation on the same scenes and questions
Init ==
    /\ InitState("forward_stage2")
    /\ InitConfig({ShortPrefix}, {TRUE})
    /\ InitBatch(1..MaxBatch, PaddedMasks, QuestionTexts, {<<WordTok>>})

Next == NextStage2 \/ EvaluateEnter \/ NextEvaluate

Spec == Init /\ [][Next]_vars

(***************************************************************************)
(* The text post-processing of evaluate on every decoded text               *)
(***************************************************************************)
\* lines 557-559 applied to one decoded text
DecodeAndClean ==
    /\ call = "postprocess"
    /\ pc = "start"
    /\ output_text' = PostProcess(decoded)
    /\ pc' = "done"
    /\ UNCHANGED <<config, batch, call, i, mins, maxs, object_list_embed,
                   valid_ids, packer, driver, answer_text, decoded>>

InitText ==
    /\ call = "postprocess"
    /\ pc = "start"
    /\ i = 0
    /\ mins = <<>> /\ maxs = <<>>
    /\ object_list_embed = <<>> /\ valid_ids = <<>>
    /\ input_embed_list = <<>> /\ attn_list = <<>> /\ target_list = <<>>
    /\ max_seq_len = 0
    /\ input_embeds = <<>> /\ attention_mask = <<>> /\ targets = <<>>
    /\ gen_valid_ids = <<>> /\ gen_inputs = <<>> /\ output_texts = <<>>
    /\ gen_failed = FALSE
    /\ add_img_token = FALSE /\ add_scene_token = FALSE /\ train_emb = FALSE
    /\ train_img_proj = FALSE /\ stage = 2
    /\ requires_grad = ConstructedGrad(stage, add_scene_token, train_img_proj)
    /\ end_sym = EndSym
    /\ p0_len = ShortPrefix
    /\ scene_mask = <<>> /\ questions = <<>> /\ answers = <<>> /\ kwargs = {}
    /\ answer_text = <<>>
    /\ decoded \in Texts
    /\ output_text = <<>>

NextText == DecodeAndClean

SpecText == InitText /\ [][NextText]_vars

\* C13: with train_emb off every identifier row of the returned block is
\* detached, for every number of valid objects (one included) and every
\* layout; with train_emb on every identifier row keeps its gradient path.
C13_IdentifierGrad ==
    InterleaveDone =>
        \A r \in 1..Len(object_list_embed) :
            object_list_embed[r].kind = "id" =>
                object_list_embed[r].grad = train_emb

C13_Witness ==
    /\ InterleaveDone
    /\ ~train_emb
    /\ ValidCount(1) = 1
    /\ add_img_token /\ add_scene_token
    /\ \E r \in 1..Len(object_list_embed) :
          /\ object_list_embed[r].kind = "id"
          /\ ~object_list_embed[r].grad

\* the rows of the block that carry an object embedding
ObjectRows == {r \in 1..Len(object_list_embed) : object_list_embed[r].kind = "obj"}

\* C17: in a scene with at least two valid objects the identifier row in
\* front of the object of slot k is row k of the identifier pool, whatever
\* the shuffle outcome, and two distinct valid objects never share an
\* identifier.
C17_StableIdentifier ==
    (InterleaveDone /\ ValidCount(1) >= 2) =>
        /\ \A r \in ObjectRows :
              /\ r > 1
              /\ object_list_embed[r - 1] \in
                     {ObjidEmbeds(g)[object_list_embed[r].idx + 1] : g \in BOOLEAN}
        /\ \A r1, r2 \in ObjectRows :
              object_list_embed[r1].idx # object_list_embed[r2].idx =>
                  object_list_embed[r1 - 1].idx # object_list_embed[r2 - 1].idx

C17_Witness ==
    /\ InterleaveDone
    /\ add_img_token /\ add_scene_token
    /\ valid_ids[1] = <<2, 0>>
    /\ Len(object_list_embed) = 8
    /\ object_list_embed[1].kind = "id" /\ object_list_embed[1].idx = 2
    /\ object_list_embed[5].kind = "id" /\ object_list_embed[5].idx = 0

(***************************************************************************)
(* Claims about forward_stage2 (SpecStage2)                                 *)
(***************************************************************************)
Stage2Done == call = "forward_stage2" /\ pc = "done"

\* a batch whose questions and answers match its scenes one to one
WellFormedBatch ==
    Len(questions) = Len(scene_mask) /\ Len(answers) = Len(scene_mask)

\* packed length of example b, and the position where its answer segment starts
PackedLen(b) == Len(input_embed_list[b])
AnswerLen(b) == Len(AnswerTokens(answers[b]))
AnswerStart(b) == PackedLen(b) - AnswerLen(b)

\* C4: in every row of the label tensor, positions before the answer segment
\* hold -100, an answer position holds -100 if its token is the pad token and
\* its token id otherwise, and the positions after the answer hold -100; also
\* after padding and truncation.
C4_Labels ==
    Stage2Done =>
        /\ Len(targets) = Len(answers)
        /\ \A b \in 1..Len(targets) : \A k \in 1..Len(targets[b]) :
              IF k <= AnswerStart(b) \/ k > PackedLen(b)
              THEN targets[b][k] = IgnoreIndex
              ELSE LET tok == AnswerTokens(answers[b])[k - AnswerStart(b)]
                   IN  targets[b][k] = IF tok = PadTokenId THEN IgnoreIndex ELSE tok

C4_Witness ==
    /\ Stage2Done
    /\ Len(targets) = 2
    /\ \E b \in 1..2 : PackedLen(b) > MaxSeqCap
    /\ \E b \in 1..2 : PackedLen(b) < max_seq_len
    /\ \E b \in 1..2 : \E k \in 1..Len(targets[b]) :
          /\ k > AnswerStart(b) /\ k <= PackedLen(b)
          /\ AnswerTokens(answers[b])[k - AnswerStart(b)] = PadTokenId
          /\ targets[b][k] = IgnoreIndex
    /\ \E b \in 1..2 : \E k \in 1..Len(targets[b]) :
          /\ k > AnswerStart(b)
          /\ targets[b][k] = EndSymTok

\* C5: for a non-empty batch, max_seq_len = min(768, longest packed length)
\* and the embedding, mask and label tensors all have batch_size rows of
\* exactly max_seq_len positions.
C5_BatchShape ==
    (Stage2Done /\ WellFormedBatch) =>
        LET n == Len(scene_mask)
        IN  /\ \E b \in 1..n : max_seq_len = Min(MaxSeqCap, PackedLen(b))
            /\ \A b \in 1..n : max_seq_len >= Min(MaxSeqCap, PackedLen(b))
            /\ Len(input_embeds) = n
            /\ Len(attention_mask) = n
            /\ Len(targets) = n
            /\ \A b \in 1..n :
                  /\ Len(input_embeds[b]) = max_seq_len
                  /\ Len(attention_mask[b]) = max_seq_len
                  /\ Len(targets[b]) = max_seq_len

C5_Witness ==
    /\ Stage2Done
    /\ Len(scene_mask) = 2
    /\ PackedLen(1) > MaxSeqCap
    /\ PackedLen(2) < MaxSeqCap
    /\ max_seq_len = MaxSeqCap
    /\ Len(input_embeds[2]) = MaxSeqCap

\* C6: the stored row of an example of packed length L is the first
\* min(L, max_seq_len) positions of its packed triple, then padding with
\* embedding 0, mask 0 and label -100; positions are dropped from the right
\* end only, so whenever an answer position is stored the whole prefix,
\* object block and prompt before it are stored too.
C6_RightTruncation ==
    Stage2Done =>
        \A b \in 1..Len(input_embed_list) :
            LET n == Min(PackedLen(b), max_seq_len)
            IN  /\ Len(input_embeds[b]) = max_seq_len
                /\ SubSeq(input_embeds[b], 1, n) = SubSeq(input_embed_list[b], 1, n)
                /\ SubSeq(attention_mask[b], 1, n) = SubSeq(attn_list[b], 1, n)
                /\ SubSeq(targets[b], 1, n) = SubSeq(target_list[b], 1, n)
                /\ \A k \in (n + 1)..max_seq_len :
                      /\ input_embeds[b][k] = ZeroRow
                      /\ attention_mask[b][k] = 0
                      /\ targets[b][k] = IgnoreIndex
                /\ \A k \in 1..Min(n, p0_len) :
                      input_embeds[b][k] = Row("p0", k - 1, FALSE)
                /\ n > AnswerStart(b) =>
                      /\ input_embeds[b][AnswerStart(b)].kind = "tok"
                      /\ input_embeds[b][AnswerStart(b)].idx = RoleTok
                      /\ \A k \in (AnswerStart(b) + 1)..n :
                            input_embeds[b][k].idx =
                                AnswerTokens(answers[b])[k - AnswerStart(b)]

C6_Witness ==
    /\ Stage2Done
    /\ \E b \in 1..Len(input_embed_list) :
          /\ PackedLen(b) > MaxSeqCap
          /\ AnswerStart(b) < MaxSeqCap
          /\ Len(input_embeds[b]) = MaxSeqCap
          /\ input_embeds[b][MaxSeqCap].kind = "tok"
          /\ attention_mask[b][MaxSeqCap] = 1

\* C7: when a scene of the batch has no valid object, forward_stage2 and
\* evaluate fail for the batch: no object block or packed sequence is ever
\* produced for that scene and the call does not complete.
C7_ZeroValidFailsFast ==
    (call \in {"forward_stage2", "evaluate"}) =>
        /\ \A b \in 1..i : ValidCount(b) >= 1
        /\ (pc = "done" => \A b \in 1..Len(scene_mask) : ValidCount(b) >= 1)

(***************************************************************************)
(* Claims about evaluate (Spec)                                             *)
(***************************************************************************)
\* C8: when generate fails for one example, evaluate does not end with the
\* exception: it goes on and returns one text per example of the batch.
C8_GenerateFailureContained ==
    (call = "evaluate" /\ gen_failed) =>
        /\ pc # "raised"
        /\ (pc = "done" => Len(output_texts) = Len(scene_mask))

\* C9: for the same scene, question, flags and shuffle outcome, the sequence
\* evaluate hands to generate is the training packed sequence without its
\* answer segment: prefix, object block, instruction suffix, prompt, in that
\* order, with no answer and no padding position.
C9_SamePrefix ==
    \A b \in 1..Len(gen_inputs) :
        (b <= Len(input_embed_list) /\ gen_valid_ids[b] = valid_ids[b]) =>
            LET blockLen == Len(gen_inputs[b]) - p0_len - 1
                                - Len(PromptTokens(questions[b]))
            IN  /\ gen_inputs[b] = SubSeq(input_embed_list[b], 1, AnswerStart(b))
                /\ \A k \in 1..Len(gen_inputs[b]) :
                      gen_inputs[b][k].kind =
                          IF k <= p0_len THEN "p0"
                          ELSE IF k <= p0_len + blockLen
                               THEN LayoutColumns[((k - p0_len - 1) % LayoutWidth) + 1]
                          ELSE IF k = p0_len + blockLen + 1 THEN "p1"
                          ELSE "tok"

C9_Witness ==
    /\ call = "evaluate"
    /\ pc = "done"
    /\ Len(gen_inputs) = 2
    /\ add_img_token /\ add_scene_token
    /\ questions[1] # questions[2]
    /\ valid_ids[1] = <<1, 2, 0>> /\ gen_valid_ids[1] = <<1, 2, 0>>
    /\ valid_ids[2] = <<1, 0>> /\ gen_valid_ids[2] = <<1, 0>>
    /\ Len(gen_inputs[1]) = ShortPrefix + 12 + 1 + 2

(***************************************************************************)
(* Claims about the text post-processing (SpecText)                         *)
(***************************************************************************)
TextDone == call = "postprocess" /\ pc = "done"

\* text contains pat at position k
OccursAt(text, pat, k) ==
    k + Len(pat) - 1 <= Len(text) /\ SubSeq(text, k, k + Len(pat) - 1) = pat

Contains(text, pat) == \E k \in 1..Len(text) : OccursAt(text, pat, k)

NoOuterWhitespace(text) ==
    text # <<>> => (Head(text) \notin Whitespace /\ text[Len(text)] \notin Whitespace)

IsNotWhitespace(c) == c \notin Whitespace

\* the part of text before the first end-of-turn marker
BeforeFirstMarker(text) ==
    IF Contains(text, EndSym)
    THEN LET k == CHOOSE k \in 1..Len(text) :
                    /\ OccursAt(text, EndSym, k)
                    /\ \A m \in 1..(k - 1) : ~OccursAt(text, EndSym, m)
         IN  SubSeq(text, 1, k - 1)
    ELSE text

\* C10 as stated: the returned text has no end-of-turn marker, no two
\* consecutive spaces, no space directly before a period and no leading or
\* trailing whitespace.
C10_CleanText ==
    TextDone =>
        /\ ~Contains(output_text, EndSym)
        /\ ~Contains(output_text, <<" ", " ">>)
        /\ ~Contains(output_text, <<" ", ".">>)
        /\ NoOuterWhitespace(output_text)

\* C10 amended: the returned text comes from the part before the first
\* marker (same non-whitespace characters in the same order), has no marker
\* and no leading or trailing whitespace; it has no two consecutive spaces
\* and no space before a period provided the decoded text has no run of
\* three or more spaces (each replace is a single pass).
C10_CleanTextSinglePass ==
    TextDone =>
        /\ SelectSeq(output_text, IsNotWhitespace)
              = SelectSeq(BeforeFirstMarker(decoded), IsNotWhitespace)
        /\ ~Contains(output_text, EndSym)
        /\ NoOuterWhitespace(output_text)
        /\ ~Contains(decoded, <<" ", " ", " ">>) =>
              /\ ~Contains(output_text, <<" ", " ">>)
              /\ ~Contains(output_text, <<" ", ".">>)

C10_Witness ==
    /\ TextDone
    /\ decoded = <<" ", "a", " ", " ", ".">>
    /\ output_text = <<"a", ".">>

(***************************************************************************)
(* Chat3D.__init__, step by step (SpecConstruct)                            *)
(***************************************************************************)
Stages == {1, 2, 3}     \* config.model.stage

\* lines 230-232
InitFreezeImgProj ==
    /\ call = "__init__"
    /\ pc = "start"
    /\ requires_grad' = FreezeImgProj(requires_grad, train_img_proj)
    /\ pc' = "img_proj_done"
    /\ UNCHANGED <<add_img_token, add_scene_token, train_emb, train_img_proj,
                   stage, end_sym, p0_len, batch, call, i, mins, maxs,
                   object_list_embed, valid_ids, packer, driver, texts>>

\* lines 250-256
InitFreezeSceneBranch ==
    /\ call = "__init__"
    /\ pc = "img_proj_done"
    /\ requires_grad' = FreezeSceneBranch(requires_grad, add_scene_token)
    /\ pc' = "scene_branch_done"
    /\ UNCHANGED <<add_img_token, add_scene_token, train_emb, train_img_proj,
                   stage, end_sym, p0_len, batch, call, i, mins, maxs,
                   object_list_embed, valid_ids, packer, driver, texts>>

\* lines 258-262
InitFreezeStage1 ==
    /\ call = "__init__"
    /\ pc = "scene_branch_done"
    /\ requires_grad' = FreezeStage1(requires_grad, stage)
    /\ pc' = "done"
    /\ UNCHANGED <<add_img_token, add_scene_token, train_emb, train_img_proj,
                   stage, end_sym, p0_len, batch, call, i, mins, maxs,
                   object_list_embed, valid_ids, packer, driver, texts>>

InitConstruct ==
    /\ InitState("__init__")
    /\ add_img_token \in BOOLEAN
    /\ add_scene_token \in BOOLEAN
    /\ train_emb \in BOOLEAN
    /\ train_img_proj \in BOOLEAN
    /\ stage \in Stages
    /\ requires_grad = CreatedModules
    /\ end_sym = EndSym
    /\ p0_len = ShortPrefix
    /\ scene_mask = <<>> /\ questions = <<>> /\ answers = <<>> /\ kwargs = {}

NextConstruct == InitFreezeImgProj \/ InitFreezeSceneBranch \/ InitFreezeStage1

SpecConstruct == InitConstruct /\ [][NextConstruct]_vars

Constructed == call = "__init__" /\ pc = "done"

\* C12: after construction, for every stage and scene-token flag, the
\* relation encoder and pos_proj are trainable only if the scene-token flag
\* is on and the stage is not 1; otherwise both are frozen.
C12_SceneEncoderFrozen ==
    Constructed =>
        /\ requires_grad.relation_module => (add_scene_token /\ stage # 1)
        /\ requires_grad.pos_proj => (add_scene_token /\ stage # 1)

(***************************************************************************)
(* Chat3D.forward: the dispatch on the keyword names (SpecForward)          *)
(***************************************************************************)
HandlerKeys == {"target_captions", "answers", "conversations", "custom_prompt"}

\* the methods the class Chat3D defines among those forward refers to
DefinedHandlers == {"forward_stage1", "forward_stage2", "evaluate"}

\* the handler forward selects: the first matching key, None when no key
SelectedHandler(kw) ==
    IF "target_captions" \in kw THEN "forward_stage1"
    ELSE IF "answers" \in kw THEN "forward_stage2"
    ELSE IF "conversations" \in kw THEN "forward_stage3"
    ELSE IF "custom_prompt" \in kw THEN "evaluate"
    ELSE "None"

\* Chat3D.forward: looks up the selected method on self and calls it; the
\* lookup of a method the class does not define raises AttributeError
Forward ==
    /\ call = "forward"
    /\ pc = "start"
    /\ LET h == SelectedHandler(kwargs)
       IN  IF h = "None"
           THEN /\ pc' = "done"
                /\ UNCHANGED call
           ELSE IF h \in DefinedHandlers
           THEN /\ call' = h
                /\ pc' = "start"
           ELSE /\ pc' = "raised"
                /\ UNCHANGED call
    /\ UNCHANGED <<config, batch, i, mins, maxs, object_list_embed, valid_ids,
                   packer, driver, texts>>

\* padded scenes with at most two valid objects
SmallScenes == {m \in PaddedMasks : Len(ValidIds(m)) <= 2}

InitForward ==
    /\ InitState("forward")
    /\ kwargs \in SUBSET HandlerKeys
    /\ InitConfig({ShortPrefix}, {TRUE})
    /\ \E n \in {1} :
          /\ scene_mask \in [1..n -> SmallScenes]
          /\ questions \in [1..n -> {<<WordTok>>}]
          /\ answers \in [1..n -> {<<WordTok>>}]

NextForward == Forward \/ NextStage2 \/ NextEvaluate

SpecForward == InitForward /\ [][NextForward]_vars

Dispatched == ~(call = "forward" /\ pc = "start")

\* C18: forward selects one handler by the first matching key in the order
\* target_captions, answers, conversations, custom_prompt and returns None
\* without calling a handler when no key is present; for each of the four
\* keys the selected handler exists and is invoked; a call with both answers
\* and custom_prompt runs training, not generation.
C18_Dispatch ==
    (Dispatched /\ kwargs \subseteq HandlerKeys /\ call # "__init__") =>
        /\ "target_captions" \in kwargs => call = "forward_stage1"
        /\ ("answers" \in kwargs /\ "target_captions" \notin kwargs)
              => call = "forward_stage2"
        /\ ("conversations" \in kwargs
            /\ kwargs \cap {"target_captions", "answers"} = {})
              => (call = "forward_stage3" /\ pc # "raised")
        /\ kwargs \cap HandlerKeys = {"custom_prompt"} => call = "evaluate"
        /\ kwargs \cap HandlerKeys = {} => (call = "forward" /\ pc = "done")

(***************************************************************************)
(* forward_stage2 on a batch whose counts differ (SpecMismatch)             *)
(***************************************************************************)
\* the loop body when proj_object_embed[i], scene_mask[i] or answers[i] is
\* out of range: IndexError ends the call
Stage2IndexError ==
    /\ call = "forward_stage2"
    /\ pc = "loop"
    /\ i < Len(questions)
    /\ (i >= Len(scene_mask) \/ i >= Len(answers))
    /\ pc' = "raised"
    /\ UNCHANGED <<config, batch, call, i, mins, maxs, object_list_embed,
                   valid_ids, packer, driver, texts>>

InitMismatch ==
    /\ InitState("forward_stage2")
    /\ InitConfig({ShortPrefix}, {TRUE})
    /\ \E n \in 1..MaxBatch, nq \in 1..MaxBatch, na \in 1..MaxBatch :
          /\ ~(nq = n /\ na = n)
          /\ scene_mask \in [1..n -> SmallScenes]
          /\ questions \in [1..nq -> {<<WordTok>>}]
          /\ answers \in [1..na -> {<<WordTok>>}]
    /\ kwargs = {}

NextMismatch == NextStage2 \/ Stage2IndexError

SpecMismatch == InitMismatch /\ [][NextMismatch]_vars

\* C15: when the number of questions or of answers differs from the number
\* of scenes, forward_stage2 fails for the whole batch: it never completes,
\* never skips a scene and never hands the language model tensors with
\* fewer rows than the batch has scenes.
C15_MismatchFailsBatch ==
    (call = "forward_stage2" /\ ~WellFormedBatch) =>
        /\ pc # "done"
        /\ Len(input_embeds) \in {0, Len(scene_mask)}

(***************************************************************************)
(* forward_stage2 with and without train_emb (SpecGrad)                     *)
(***************************************************************************)
\* answers of original-vocabulary tokens and of object-identifier tokens
TokenAnswers == {<<WordTok>>, <<ObjTok>>}

InitGrad ==
    /\ InitState("forward_stage2")
    /\ InitConfig({ShortPrefix}, BOOLEAN)
    /\ InitBatch(1..MaxBatch, SmallScenes, QuestionTexts, TokenAnswers)

SpecGrad == InitGrad /\ [][NextStage2]_vars

\* the gradient routing the documentation gives for one row of a sequence
GradRouted(row) ==
    CASE row.kind = "tok" /\ row.idx < OriVocabSize  -> ~row.grad
      [] row.kind = "tok" /\ row.idx >= OriVocabSize -> row.grad = train_emb
      [] row.kind \in {"p0", "p1"}                   -> ~row.grad
      [] OTHER                                       -> TRUE

\* C14: in every packed training sequence a prompt or answer token of the
\* original vocabulary is detached whatever train_emb is, a token of the
\* object-identifier range keeps its gradient exactly when train_emb is on,
\* and the prefix and instruction-suffix rows are always detached.
C14_TokenGrad ==
    call = "forward_stage2" =>
        /\ \A b \in 1..Len(input_embed_list) :
              \A k \in 1..Len(input_embed_list[b]) :
                  GradRouted(input_embed_list[b][k])
        /\ \A b \in 1..Len(input_embeds) :
              \A k \in 1..Len(input_embeds[b]) : GradRouted(input_embeds[b][k])

C14_Witness ==
    /\ Stage2Done
    /\ train_emb
    /\ questions[1] = <<WordTok, ObjTok>>
    /\ answers[1] = <<ObjTok>>
    /\ \E k \in 1..Len(input_embeds[1]) :
          /\ input_embeds[1][k] = Row("tok", WordTok, FALSE)
          /\ input_embeds[1][k + 1] = Row("tok", ObjTok, TRUE)
    /\ \E k \in 1..Len(input_embeds[1]) :
          /\ input_embeds[1][k] = Row("tok", ObjTok, TRUE)
          /\ input_embeds[1][k + 1] = Row("tok", EndSymTok, FALSE)
    /\ input_embeds[1][1] = Row("p0", 0, FALSE)

(***************************************************************************)
(* Training then generation on batches of distinct examples (SpecOrder)     *)
(***************************************************************************)
InitOrder ==
    /\ InitState("forward_stage2")
    /\ InitConfig({ShortPrefix}, {TRUE})
    /\ InitBatch(1..MaxBatch, SmallScenes, QuestionTexts, TokenAnswers)

SpecOrder == InitOrder /\ [][Next]_vars

\* what a sequence of embedding rows was built from
ObjSlots(rows) == {rows[k].idx : k \in {j \in 1..Len(rows) : rows[j].kind = "obj"}}
IsTokRow(row) == row.kind = "tok"
TokIds(rows) ==
    LET toks == SelectSeq(rows, IsTokRow)
    IN  [k \in 1..Len(toks) |-> toks[k].idx]
ValidSlots(mask) == {k - 1 : k \in {j \in 1..Len(mask) : mask[j] = 1}}
IsLabel(x) == x # IgnoreIndex

\* row b of a list of training sequences comes from example b
TrainRowOf(b) ==
    /\ ObjSlots(input_embed_list[b]) = ValidSlots(scene_mask[b])
    /\ Range(valid_ids[b]) = ValidSlots(scene_mask[b])
    /\ TokIds(input_embed_list[b])
          = questions[b] \o <<RoleTok>> \o answers[b] \o <<EndSymTok>>
    /\ SelectSeq(target_list[b], IsLabel) = answers[b] \o <<EndSymTok>>
    /\ Len(attn_list[b]) = Len(input_embed_list[b])

\* row b of the batch tensors is the b-th sequence, padded
TensorRowOf(b) ==
    /\ SubSeq(input_embeds[b], 1, Len(input_embed_list[b])) = input_embed_list[b]
    /\ SubSeq(targets[b], 1, Len(target_list[b])) = target_list[b]
    /\ SubSeq(attention_mask[b], 1, Len(attn_list[b])) = attn_list[b]

\* the b-th input of generate comes from scene b and prompt b
GenRowOf(b) ==
    /\ ObjSlots(gen_inputs[b]) = ValidSlots(scene_mask[b])
    /\ Range(gen_valid_ids[b]) = ValidSlots(scene_mask[b])
    /\ TokIds(gen_inputs[b]) = questions[b] \o <<RoleTok>>

\* C16: row i of the embedding, mask and label tensors of forward_stage2 is
\* built from scene i, question i and answer i, and the i-th text returned
\* by evaluate is generated from scene i and prompt i; the shuffle of the
\* objects of a scene never reorders or mixes examples.
C16_ExampleOrder ==
    /\ call = "forward_stage2" =>
          /\ Len(input_embed_list) = IF pc = "start" THEN 0 ELSE i
          /\ \A b \in 1..Len(input_embed_list) : TrainRowOf(b)
          /\ pc = "done" =>
                /\ Len(input_embeds) = Len(scene_mask)
                /\ Len(targets) = Len(scene_mask)
                /\ Len(attention_mask) = Len(scene_mask)
                /\ \A b \in 1..Len(scene_mask) : TensorRowOf(b)
    /\ call = "evaluate" =>
          /\ \A b \in 1..Len(gen_inputs) : GenRowOf(b)
          /\ pc = "loop" => (Len(gen_inputs) = i /\ Len(output_texts) = i)
          /\ pc = "done" =>
                /\ Len(output_texts) = Len(scene_mask)
                /\ Len(gen_inputs) = Len(scene_mask)
                /\ output_texts[Len(output_texts)] = output_text

C16_Witness ==
    /\ call = "evaluate" /\ pc = "done"
    /\ Len(scene_mask) = 2
    /\ ValidSlots(scene_mask[1]) = {0, 1}
    /\ ValidSlots(scene_mask[2]) = {0}
    /\ valid_ids[1] = <<1, 0>>
    /\ gen_valid_ids[1] = <<0, 1>>
    /\ questions = <<<<WordTok, ObjTok>>, <<WordTok>>>>
    /\ answers = <<<<ObjTok>>, <<WordTok>>>>
    /\ Len(input_embeds[1]) = Len(input_embeds[2])
    /\ Len(input_embed_list[1]) > Len(input_embed_list[2])
    /\ output_texts[1] # output_texts[2]

(***************************************************************************)
(* An answer through training target, generation and decoding              *)
(* (SpecRoundTrip)                                                          *)
(***************************************************************************)
\* values of config.model.end_sym: EndSym, and a marker whose first
\* character is also its last
EndSyms == {EndSym, <<"<", "<">>}

\* answer = answers[i] + self.end_sym is tokenized into the training target
\* (lines 453-454); generate returns exactly these tokens; evaluate decodes
\* them and keeps the part before the first end_sym (lines 557-558)
GenerateTarget ==
    /\ call = "round_trip"
    /\ pc = "start"
    /\ LET output_token == Encode(answer_text \o end_sym)
       IN  /\ decoded' = Decode(output_token)
           /\ output_text' = SplitFirst(Decode(output_token), end_sym)
    /\ pc' = "cut"
    /\ UNCHANGED <<config, batch, call, i, mins, maxs, object_list_embed,
                   valid_ids, packer, driver, answer_text>>

\* line 559
CleanCut ==
    /\ call = "round_trip"
    /\ pc = "cut"
    /\ output_text' = CleanText(output_text)
    /\ pc' = "done"
    /\ UNCHANGED <<config, batch, call, i, mins, maxs, object_list_embed,
                   valid_ids, packer, driver, answer_text, decoded>>

InitRoundTrip ==
    /\ call = "round_trip"
    /\ pc = "start"
    /\ i = 0
    /\ mins = <<>> /\ maxs = <<>>
    /\ object_list_embed = <<>> /\ valid_ids = <<>>
    /\ input_embed_list = <<>> /\ attn_list = <<>> /\ target_list = <<>>
    /\ max_seq_len = 0
    /\ input_embeds = <<>> /\ attention_mask = <<>> /\ targets = <<>>
    /\ gen_valid_ids = <<>> /\ gen_inputs = <<>> /\ output_texts = <<>>
    /\ gen_failed = FALSE
    /\ add_img_token = FALSE /\ add_scene_token = FALSE /\ train_emb = FALSE
    /\ train_img_proj = FALSE /\ stage = 2
    /\ requires_grad = ConstructedGrad(stage, add_scene_token, train_img_proj)
    /\ end_sym \in EndSyms
    /\ p0_len = ShortPrefix
    /\ scene_mask = <<>> /\ questions = <<>> /\ answers = <<>> /\ kwargs = {}
    /\ answer_text \in Texts
    /\ decoded = <<>>
    /\ output_text = <<>>

NextRoundTrip == GenerateTarget \/ CleanCut

SpecRoundTrip == InitRoundTrip /\ [][NextRoundTrip]_vars

CutDone == call = "round_trip" /\ pc = "cut"

\* C11: for every answer that does not contain the end-of-turn marker, when
\* the generated tokens are exactly those of answer + marker, decoding and
\* cutting at the first marker returns the answer.
C11_RoundTrip ==
    (CutDone /\ ~Contains(answer_text, end_sym)) => output_text = answer_text

\* a marker none of whose proper prefixes is also one of its suffixes
BorderFree(sym) ==
    \A n \in 1..(Len(sym) - 1) :
        SubSeq(sym, 1, n) # SubSeq(sym, Len(sym) - n + 1, Len(sym))

\* the round trip of C11 for markers that cannot overlap themselves
RoundTripBorderFree ==
    (CutDone /\ ~Contains(answer_text, end_sym) /\ BorderFree(end_sym))
        => output_text = answer_text

====
